---- MODULE Spec2Model ----
(***************************************************************************)
(* Model of src/src/index.js (ProfilerPlugin): the pre:invoke, post:invoke *)
(* and post:report hooks of one plugin instance, the inspector session it  *)
(* drives, the zip archive it fills and the two HTTP requests it issues.   *)
(* Every action is one handler of the event loop: a hook call, the         *)
(* continuation after an await, an inspector callback or notification, an  *)
(* archive event.                                                          *)
(***************************************************************************)
EXTENDS Integers, Sequences, FiniteSets

\* ---- bounds ----
MaxInvocations == 2     \* postInvoke calls on one plugin instance
MaxChunks == 2          \* non-empty heap snapshot chunks of one snapshot

\* ---- values ----
Creds == {"tok1", "tok2"}            \* jwtAccess values of a signing response
Chunks == {"", "a", "b"}             \* chunk payloads; "" is falsy in JS
CpuEntry == "profile.cpuprofile"
HeapEntryCopied == "profile.cpuprofile"
HeapEntry == "profile.heapsnapshot"
Eocd == "eocd"                       \* the bytes the archive emits at finalize

SignFailures == {"neterr", "badjson", "nullbody"}
SignResponses ==
    [kind : SignFailures, jwtAccess : {"none"}] \cup [kind : {"ok"}, jwtAccess : Creds]
NoResponse == [kind |-> "none", jwtAccess |-> "none"]

VARIABLES
    signParsed,           \* signing responses whose body JSON.parse accepted, so far
    listening,            \* this invocation registered its two listeners on this.inspector
    oldOpen,              \* earlier invocations' streams, listeners attached, not ended
    oldEnded,             \* earlier invocations' streams, listeners attached, ended
    staleWrite,           \* heap.write() was called on an earlier invocation's stream that had ended
    staleEnd,             \* heap.end() was called on an earlier invocation's stream that had ended
    archiveOut,           \* chunks the archive has emitted as 'data', in order
    resolveCalls,         \* calls of resolve() in this invocation
    snapChunks,           \* non-empty chunks the backend has sent for this snapshot
    postLog,              \* commands posted by the last preInvoke and its callbacks, in order
    chainErr,             \* Profiler.enable or setSamplingInterval called back with an error
    profilerEnabled,      \* this.profilerEnabled
    heapsnapshotEnabled,  \* this.heapsnapshotEnabled
    uploads,              \* this.uploads
    connected,            \* this.inspector holds a connection
    posted,               \* commands posted to this.inspector so far
    cpuChain,             \* position in the Profiler.enable/setSamplingInterval/start chain
    heapEnable,           \* HeapProfiler.enable callback state
    lastHook,             \* the last hook the host called and whether it threw
    invocations,          \* number of postInvoke calls so far
    promise,              \* the promise returned by the last postInvoke
    signState,            \* the signing POST of this invocation
    signResp,             \* the response the last signing POST received
    signPosts,            \* signing POSTs issued so far
    signedOk,             \* signing responses delivered with a usable body so far
    cpuStop,              \* the Profiler.stop request of this invocation
    heapReq,              \* the HeapProfiler.takeHeapSnapshot request of this invocation
    snap,                 \* the backend's snapshot of this invocation
    heapBuf,              \* chunks written to the PassThrough `heap`
    heapEnded,            \* heap.end() was called
    writeAfterEnd,        \* heap.write() was called after heap.end()
    heapConsumed,         \* chunks of `heap` the archive has read
    queue,                \* entries appended to the archive, in order
    processed,            \* entries the archive has fully processed
    filesSeen,            \* var filesSeen
    finalizeCalls,        \* calls of archive.finalize()
    archState,            \* the archive of this invocation
    archiveBuffer,        \* const archiveBuffer
    putState,             \* the PUT of this invocation
    puts,                 \* PUT requests issued in this invocation
    putBody               \* body of the PUT

confVars == <<profilerEnabled, heapsnapshotEnabled>>
sessVars == <<connected, posted, cpuChain, heapEnable>>
signVars == <<signState, signResp, signPosts, signedOk>>
captureVars == <<cpuStop, heapReq, snap, heapBuf, heapEnded, writeAfterEnd>>
archVars == <<heapConsumed, queue, processed, filesSeen, finalizeCalls, archState,
              archiveBuffer>>
putVars == <<putState, puts, putBody>>
chainVars == <<postLog, chainErr>>
backendVars == <<snapChunks>>
promiseVars == <<resolveCalls>>
emitVars == <<archiveOut>>
listenerVars == <<staleEnd, staleWrite, oldOpen, oldEnded, listening>>
parseVars == <<signParsed>>
vars == <<parseVars, listenerVars, emitVars, promiseVars, backendVars, chainVars, confVars, uploads, sessVars, lastHook, invocations, promise, signVars,
          captureVars, archVars, putVars>>

Range(s) == {s[i] : i \in 1..Len(s)}

\* ---- pure pieces of the code ----

\* this.enabled = this.profilerEnabled || this.heapsnapshotEnabled
enabledAlways == TRUE
enabled == profilerEnabled \/ heapsnapshotEnabled

\* const filesCount = this.profilerEnabled + this.heapsnapshotEnabled
filesCount ==
    (IF profilerEnabled THEN 1 ELSE 0) + (IF heapsnapshotEnabled THEN 1 ELSE 0)

\* if (filesSeen >= filesCount), evaluated after filesSeen++
LastEntryFirst(seen) == seen >= 1
LastEntry(seen) == seen >= filesCount

\* getSignedUrl throws: request() rejects, JSON.parse throws, or the body parses
\* to null and response.jwtAccess throws
SigningThrowsNoParse(resp) == resp.kind = "neterr"
SigningThrows(resp) == resp.kind \in SignFailures

\* this.uploads.push(response.jwtAccess)
PushUploadReset(u, c) == <<c>>
PushUpload(u, c) == Append(u, c)

\* the progress listener: if (finished) heap.end()
ProgressEndsAlways(finished) == TRUE
ProgressEnds(finished) == finished

\* the queue of the archive once takeHeapSnapshot has been posted: the stream
\* is appended by the request's callback, not by the posting code
QueueAfterSnapshotPostEager(q) == Append(q, HeapEntry)
QueueAfterSnapshotPost(q) == q

\* the callbacks of the CPU chain log their error and go on to the next post
ContinueAfterOnlyIfOk(err) == ~err
ContinueAfter(err) == TRUE

\* heap.write(chunk)
WriteChunkFront(buf, chunk) == <<chunk>> \o buf
WriteChunk(buf, chunk) == Append(buf, chunk)

\* the 'finish' handler calls resolve() after its await, not before
ResolvesBeforePutYes == TRUE
ResolvesBeforePut == FALSE

\* archive.on('data', chunk => archiveBuffer.push(chunk))
DataHandlerKeepLast(buf, chunk) == <<chunk>>
DataHandler(buf, chunk) == Append(buf, chunk)

\* JSON.parse accepts the body: "null" is JSON too
Parses(resp) == resp.kind \in {"ok", "nullbody"}

\* the 'finish' handler leaves this.uploads alone whatever the PUT's outcome
UploadsAfterPutDropFailed(u, ok) == IF ok \/ u = <<>> THEN u ELSE SubSeq(u, 1, Len(u) - 1)
UploadsAfterPut(u, ok) == u

\* archive.append: refused (an 'error' event) once finalize was called
ArchiveAppend(q, name) == IF archState = "open" THEN Append(q, name) ELSE q

\* ---- initial state: after the constructor ----
Init ==
    /\ signParsed = 0
    /\ listening = FALSE
    /\ oldOpen = 0
    /\ oldEnded = 0
    /\ staleWrite = FALSE
    /\ staleEnd = FALSE
    /\ archiveOut = <<>>
    /\ resolveCalls = 0
    /\ snapChunks = <<>>
    /\ postLog = <<>>
    /\ chainErr = FALSE
    /\ profilerEnabled \in BOOLEAN
    /\ heapsnapshotEnabled \in BOOLEAN
    /\ uploads = <<>>
    /\ connected = FALSE
    /\ posted = {}
    /\ cpuChain = "none"
    /\ heapEnable = "none"
    /\ lastHook = [name |-> "none", threw |-> FALSE]
    /\ invocations = 0
    /\ promise = "none"
    /\ signState = "none"
    /\ signResp = NoResponse
    /\ signPosts = 0
    /\ signedOk = 0
    /\ cpuStop = "none"
    /\ heapReq = "none"
    /\ snap = "none"
    /\ heapBuf = <<>>
    /\ heapEnded = FALSE
    /\ writeAfterEnd = FALSE
    /\ heapConsumed = 0
    /\ queue = <<>>
    /\ processed = 0
    /\ filesSeen = 0
    /\ finalizeCalls = 0
    /\ archState = "none"
    /\ archiveBuffer = <<>>
    /\ putState = "none"
    /\ puts = 0
    /\ putBody = <<>>

\* ---- pre:invoke ----

\* The host runs pre:invoke, the function, post:invoke (awaited) and
\* post:report in turn: preInvoke and postInvoke are not called while the
\* promise of the last postInvoke is pending, nor while a callback of the
\* last preInvoke is outstanding (the session is in-process: its callbacks
\* run before the hook returns or on the next tick).
ChainIdle == cpuChain \in {"none", "done", "broken"} /\ heapEnable # "pending"

PreInvoke ==
    /\ UNCHANGED <<signParsed>>
    /\ UNCHANGED <<listening>>
    /\ UNCHANGED <<oldOpen, oldEnded>>
    /\ UNCHANGED <<staleWrite>>
    /\ UNCHANGED <<staleEnd>>
    /\ UNCHANGED <<archiveOut>>
    /\ UNCHANGED <<resolveCalls>>
    /\ UNCHANGED <<snapChunks>>
    /\ ChainIdle
    /\ promise # "pending"
    /\ UNCHANGED <<confVars, uploads, invocations, promise, signVars, captureVars,
                   archVars, putVars>>
    /\ IF ~enabled
       THEN /\ lastHook' = [name |-> "preInvoke", threw |-> FALSE]
            /\ UNCHANGED <<sessVars, chainVars>>
       ELSE \E dErr \in BOOLEAN, cErr \in BOOLEAN :
            LET afterDisconnect == IF dErr THEN connected ELSE FALSE
                connectThrows == afterDisconnect \/ cErr
                afterConnect == IF connectThrows THEN afterDisconnect ELSE TRUE
            IN  /\ connected' = afterConnect
                /\ IF ~afterConnect
                   THEN \* the first inspector.post throws out of the hook
                        /\ lastHook' = [name |-> "preInvoke", threw |-> TRUE]
                        /\ UNCHANGED <<posted, cpuChain, heapEnable, chainVars>>
                   ELSE /\ lastHook' = [name |-> "preInvoke", threw |-> FALSE]
                        /\ postLog' = (IF heapsnapshotEnabled
                                       THEN <<"HeapProfiler.enable">> ELSE <<>>)
                               \o (IF profilerEnabled
                                   THEN <<"Profiler.enable">> ELSE <<>>)
                        /\ chainErr' = FALSE
                        /\ posted' = posted
                               \cup (IF heapsnapshotEnabled
                                     THEN {"HeapProfiler.enable"} ELSE {})
                               \cup (IF profilerEnabled
                                     THEN {"Profiler.enable"} ELSE {})
                        /\ heapEnable' = IF heapsnapshotEnabled
                                         THEN "pending" ELSE heapEnable
                        /\ cpuChain' = IF profilerEnabled THEN "enable" ELSE cpuChain

\* callback of HeapProfiler.enable: logs the error, if any
HeapEnableCb ==
    /\ UNCHANGED <<signParsed>>
    /\ UNCHANGED <<listening>>
    /\ UNCHANGED <<oldOpen, oldEnded>>
    /\ UNCHANGED <<staleWrite>>
    /\ UNCHANGED <<staleEnd>>
    /\ UNCHANGED <<archiveOut>>
    /\ UNCHANGED <<resolveCalls>>
    /\ UNCHANGED <<snapChunks>>
    /\ UNCHANGED <<postLog, chainErr>>
    /\ heapEnable = "pending"
    /\ heapEnable' = "done"
    /\ UNCHANGED <<confVars, uploads, connected, posted, cpuChain, lastHook,
                   invocations, promise, signVars, captureVars, archVars, putVars>>

\* callback of Profiler.enable: logs the error, posts setSamplingInterval
ProfilerEnableCb ==
    /\ UNCHANGED <<signParsed>>
    /\ UNCHANGED <<listening>>
    /\ UNCHANGED <<oldOpen, oldEnded>>
    /\ UNCHANGED <<staleWrite>>
    /\ UNCHANGED <<staleEnd>>
    /\ UNCHANGED <<archiveOut>>
    /\ UNCHANGED <<resolveCalls>>
    /\ UNCHANGED <<snapChunks>>
    /\ cpuChain = "enable"
    /\ \E errEnable \in BOOLEAN :
        /\ chainErr' = (chainErr \/ errEnable)
        /\ IF ContinueAfter(errEnable) /\ connected
           THEN /\ cpuChain' = "interval"
                /\ posted' = posted \cup {"Profiler.setSamplingInterval"}
                /\ postLog' = Append(postLog, "Profiler.setSamplingInterval")
           ELSE \* the post throws inside the callback
                /\ cpuChain' = "broken"
                /\ UNCHANGED <<posted, postLog>>
    /\ UNCHANGED <<confVars, uploads, connected, heapEnable, lastHook, invocations,
                   promise, signVars, captureVars, archVars, putVars>>

\* callback of Profiler.setSamplingInterval: logs the error, posts start
SetSamplingIntervalCb ==
    /\ UNCHANGED <<signParsed>>
    /\ UNCHANGED <<listening>>
    /\ UNCHANGED <<oldOpen, oldEnded>>
    /\ UNCHANGED <<staleWrite>>
    /\ UNCHANGED <<staleEnd>>
    /\ UNCHANGED <<archiveOut>>
    /\ UNCHANGED <<resolveCalls>>
    /\ UNCHANGED <<snapChunks>>
    /\ cpuChain = "interval"
    /\ \E err \in BOOLEAN :
        /\ chainErr' = (chainErr \/ err)
        /\ IF ContinueAfter(err) /\ connected
           THEN /\ cpuChain' = "start"
                /\ posted' = posted \cup {"Profiler.start"}
                /\ postLog' = Append(postLog, "Profiler.start")
           ELSE \* the post throws inside the callback
                /\ cpuChain' = "broken"
                /\ UNCHANGED <<posted, postLog>>
    /\ UNCHANGED <<confVars, uploads, connected, heapEnable, lastHook, invocations,
                   promise, signVars, captureVars, archVars, putVars>>

\* callback of Profiler.start: logs the error
ProfilerStartCb ==
    /\ UNCHANGED <<signParsed>>
    /\ UNCHANGED <<listening>>
    /\ UNCHANGED <<oldOpen, oldEnded>>
    /\ UNCHANGED <<staleWrite>>
    /\ UNCHANGED <<staleEnd>>
    /\ UNCHANGED <<archiveOut>>
    /\ UNCHANGED <<resolveCalls>>
    /\ UNCHANGED <<snapChunks>>
    /\ UNCHANGED <<postLog, chainErr>>
    /\ cpuChain = "start"
    /\ cpuChain' = "done"
    /\ UNCHANGED <<confVars, uploads, connected, posted, heapEnable, lastHook,
                   invocations, promise, signVars, captureVars, archVars, putVars>>

\* ---- post:invoke ----

\* postInvoke up to its first await: the early return, or the signing POST
PostInvoke ==
    /\ UNCHANGED <<signParsed>>
    /\ UNCHANGED <<staleWrite>>
    /\ UNCHANGED <<staleEnd>>
    /\ UNCHANGED <<postLog, chainErr>>
    /\ ChainIdle
    /\ promise # "pending"
    /\ invocations < MaxInvocations
    /\ invocations' = invocations + 1
    /\ lastHook' = [name |-> "postInvoke", threw |-> FALSE]
    /\ UNCHANGED <<confVars, uploads, sessVars, signResp, signedOk>>
    /\ IF ~enabled
       THEN /\ promise' = "resolved"
            /\ UNCHANGED <<signState, signPosts, captureVars, archVars, putVars>>
            /\ UNCHANGED <<snapChunks, resolveCalls, archiveOut>>
            /\ UNCHANGED <<listening, oldOpen, oldEnded>>
       ELSE /\ promise' = "pending"
            /\ resolveCalls' = 0
            /\ archiveOut' = <<>>
            \* the listeners of the invocation before stay on this.inspector
            /\ listening' = FALSE
            /\ oldOpen' = IF listening /\ ~heapEnded THEN oldOpen + 1 ELSE oldOpen
            /\ oldEnded' = IF listening /\ heapEnded THEN oldEnded + 1 ELSE oldEnded
            /\ snapChunks' = <<>>
            /\ signState' = "pending"
            /\ signPosts' = signPosts + 1
            /\ cpuStop' = "none"
            /\ heapReq' = "none"
            /\ snap' = "none"
            /\ heapBuf' = <<>>
            /\ heapEnded' = FALSE
            /\ writeAfterEnd' = FALSE
            /\ heapConsumed' = 0
            /\ queue' = <<>>
            /\ processed' = 0
            /\ filesSeen' = 0
            /\ finalizeCalls' = 0
            /\ archState' = "none"
            /\ archiveBuffer' = <<>>
            /\ putState' = "none"
            /\ puts' = 0
            /\ putBody' = <<>>

\* the signing request settles: the rest of getSignedUrl, then postInvoke from
\* `const archive` to the end of the try block, or its catch block
SignResponse ==
    /\ UNCHANGED <<oldOpen, oldEnded>>
    /\ UNCHANGED <<staleWrite>>
    /\ UNCHANGED <<staleEnd>>
    /\ UNCHANGED <<archiveOut>>
    /\ UNCHANGED <<snapChunks>>
    /\ UNCHANGED <<postLog, chainErr>>
    /\ signState = "pending"
    /\ \E resp \in SignResponses :
        /\ signResp' = resp
        /\ signParsed' = IF Parses(resp) THEN signParsed + 1 ELSE signParsed
        /\ listening' = (/\ ~SigningThrows(resp)
                         /\ heapsnapshotEnabled
                         /\ (profilerEnabled => connected))
        /\ signedOk' = IF resp.kind = "ok" THEN signedOk + 1 ELSE signedOk
        /\ UNCHANGED <<confVars, connected, cpuChain, heapEnable, lastHook, invocations,
                       signPosts, heapBuf, heapEnded, writeAfterEnd, heapConsumed,
                       processed, filesSeen, finalizeCalls, archiveBuffer, putVars>>
        /\ IF SigningThrows(resp)
           THEN /\ signState' = "failed"
                /\ promise' = "resolved"
                /\ resolveCalls' = resolveCalls + 1
                /\ UNCHANGED <<uploads, posted, cpuStop, heapReq, snap, queue, archState>>
           ELSE /\ signState' = "done"
                /\ uploads' = PushUpload(uploads, resp.jwtAccess)
                /\ archState' = "open"
                /\ IF ~connected
                   THEN \* inspector.post throws: the catch block resolves
                        /\ promise' = "resolved"
                        /\ resolveCalls' = resolveCalls + 1
                        /\ UNCHANGED <<posted, cpuStop, heapReq, snap, queue>>
                   ELSE /\ UNCHANGED <<promise, resolveCalls>>
                        /\ posted' = posted
                               \cup (IF profilerEnabled THEN {"Profiler.stop"} ELSE {})
                               \cup (IF heapsnapshotEnabled
                                     THEN {"HeapProfiler.takeHeapSnapshot"} ELSE {})
                        /\ cpuStop' = IF profilerEnabled THEN "pending" ELSE "none"
                        /\ heapReq' = IF heapsnapshotEnabled THEN "pending" ELSE "none"
                        /\ snap' = IF heapsnapshotEnabled THEN "streaming" ELSE "none"
                        /\ queue' = IF heapsnapshotEnabled
                                    THEN QueueAfterSnapshotPost(queue) ELSE queue

\* callback of Profiler.stop: (err, { profile }) => archive.append(...). On an
\* error the session calls back with the error alone and the destructuring of
\* the missing second argument throws before anything is appended.
ProfilerStopCb ==
    /\ UNCHANGED <<signParsed>>
    /\ UNCHANGED <<listening>>
    /\ UNCHANGED <<oldOpen, oldEnded>>
    /\ UNCHANGED <<staleWrite>>
    /\ UNCHANGED <<staleEnd>>
    /\ UNCHANGED <<archiveOut>>
    /\ UNCHANGED <<resolveCalls>>
    /\ UNCHANGED <<snapChunks>>
    /\ UNCHANGED <<postLog, chainErr>>
    /\ cpuStop = "pending"
    /\ \E err \in BOOLEAN :
        IF err
        THEN /\ cpuStop' = "err"
             /\ UNCHANGED queue
        ELSE /\ cpuStop' = "ok"
             /\ queue' = ArchiveAppend(queue, CpuEntry)
    /\ UNCHANGED <<confVars, uploads, sessVars, lastHook, invocations, promise,
                   signVars, heapReq, snap, heapBuf, heapEnded, writeAfterEnd,
                   heapConsumed, processed, filesSeen, finalizeCalls, archState,
                   archiveBuffer, putVars>>

\* callback of HeapProfiler.takeHeapSnapshot: () => archive.append(heap, ...),
\* which ignores the error argument and appends the stream whatever the
\* outcome of the request. The backend's notifications go on to their
\* finished report either way.
TakeHeapSnapshotCb ==
    /\ UNCHANGED <<signParsed>>
    /\ UNCHANGED <<listening>>
    /\ UNCHANGED <<oldOpen, oldEnded>>
    /\ UNCHANGED <<staleWrite>>
    /\ UNCHANGED <<staleEnd>>
    /\ UNCHANGED <<archiveOut>>
    /\ UNCHANGED <<resolveCalls>>
    /\ UNCHANGED <<snapChunks>>
    /\ UNCHANGED <<postLog, chainErr>>
    /\ heapReq = "pending"
    /\ \E err \in BOOLEAN : heapReq' = IF err THEN "err" ELSE "ok"
    /\ queue' = ArchiveAppend(queue, HeapEntry)
    /\ UNCHANGED <<confVars, uploads, sessVars, lastHook, invocations, promise,
                   signVars, cpuStop, snap, heapBuf, heapEnded, writeAfterEnd,
                   heapConsumed, processed, filesSeen, finalizeCalls, archState,
                   archiveBuffer, putVars>>

\* listener of HeapProfiler.addHeapSnapshotChunk: if (chunk) heap.write(chunk)
HeapChunk ==
    /\ UNCHANGED <<signParsed>>
    /\ UNCHANGED <<listening>>
    /\ UNCHANGED <<oldOpen, oldEnded>>
    /\ UNCHANGED <<staleEnd>>
    /\ UNCHANGED <<archiveOut>>
    /\ UNCHANGED <<resolveCalls>>
    /\ UNCHANGED <<postLog, chainErr>>
    /\ snap = "streaming"
    /\ Len(snapChunks) < MaxChunks
    /\ \E chunk \in Chunks :
        IF chunk = ""
        THEN UNCHANGED <<snapChunks, heapBuf, writeAfterEnd, staleWrite>>
        ELSE /\ snapChunks' = Append(snapChunks, chunk)
             \* every listener registered so far runs, each on its own stream
             /\ staleWrite' = (staleWrite \/ oldEnded > 0)
             /\ IF heapEnded
                THEN /\ writeAfterEnd' = TRUE
                     /\ UNCHANGED heapBuf
                ELSE /\ heapBuf' = WriteChunk(heapBuf, chunk)
                     /\ UNCHANGED writeAfterEnd
    /\ UNCHANGED <<confVars, uploads, sessVars, lastHook, invocations, promise,
                   signVars, cpuStop, heapReq, snap, heapEnded, archVars, putVars>>

\* listener of HeapProfiler.reportHeapSnapshotProgress: if (finished) heap.end().
\* The backend's finished report ends its notifications for the snapshot.
HeapProgress ==
    /\ UNCHANGED <<signParsed>>
    /\ UNCHANGED <<listening>>
    /\ UNCHANGED <<staleWrite>>
    /\ UNCHANGED <<archiveOut>>
    /\ UNCHANGED <<resolveCalls>>
    /\ UNCHANGED <<snapChunks>>
    /\ UNCHANGED <<postLog, chainErr>>
    /\ snap = "streaming"
    /\ \E finished \in BOOLEAN :
        /\ snap' = IF finished THEN "finished" ELSE snap
        /\ heapEnded' = (heapEnded \/ ProgressEnds(finished))
        \* every listener registered so far runs, each on its own stream
        /\ staleEnd' = (staleEnd \/ (finished /\ oldEnded > 0))
        /\ oldEnded' = IF finished THEN oldEnded + oldOpen ELSE oldEnded
        /\ oldOpen' = IF finished THEN 0 ELSE oldOpen
    /\ UNCHANGED <<confVars, uploads, sessVars, lastHook, invocations, promise,
                   signVars, cpuStop, heapReq, heapBuf, writeAfterEnd, archVars,
                   putVars>>

\* ---- the archive ----

\* archive.on('entry'): filesSeen++, finalize on the last entry
EntryHandlerUploads ==
    /\ filesSeen' = filesSeen + 1
    /\ IF LastEntry(filesSeen + 1)
       THEN /\ finalizeCalls' = finalizeCalls + 1
            /\ archState' = "finalizing"
            /\ puts' = puts + 1
            /\ putState' = "pending"
       ELSE UNCHANGED <<finalizeCalls, archState, puts, putState>>
EntryHandler ==
    /\ filesSeen' = filesSeen + 1
    /\ IF LastEntry(filesSeen + 1)
       THEN /\ finalizeCalls' = finalizeCalls + 1
            /\ archState' = "finalizing"
       ELSE UNCHANGED <<finalizeCalls, archState>>
    /\ UNCHANGED <<puts, putState>>

\* the head of the archive's queue, processed one entry at a time
HeadEntry == IF processed < Len(queue) THEN queue[processed + 1] ELSE "none"

\* the archive compresses the CPU profile string: 'data', then 'entry'
ArchiveProcessCpu ==
    /\ UNCHANGED <<signParsed>>
    /\ UNCHANGED <<listening>>
    /\ UNCHANGED <<oldOpen, oldEnded>>
    /\ UNCHANGED <<staleWrite>>
    /\ UNCHANGED <<staleEnd>>
    /\ UNCHANGED <<resolveCalls>>
    /\ UNCHANGED <<snapChunks>>
    /\ UNCHANGED <<postLog, chainErr>>
    /\ archState \in {"open", "finalizing"}
    /\ HeadEntry = CpuEntry
    /\ processed' = processed + 1
    /\ archiveOut' = Append(archiveOut, CpuEntry)
    /\ archiveBuffer' = DataHandler(archiveBuffer, CpuEntry)
    /\ EntryHandler
    /\ UNCHANGED <<confVars, uploads, sessVars, lastHook, invocations, promise,
                   signVars, captureVars, heapConsumed, queue, putBody>>

\* the archive reads one chunk of the heap stream: 'data'
ArchiveConsumeHeap ==
    /\ UNCHANGED <<signParsed>>
    /\ UNCHANGED <<listening>>
    /\ UNCHANGED <<oldOpen, oldEnded>>
    /\ UNCHANGED <<staleWrite>>
    /\ UNCHANGED <<staleEnd>>
    /\ UNCHANGED <<resolveCalls>>
    /\ UNCHANGED <<snapChunks>>
    /\ UNCHANGED <<postLog, chainErr>>
    /\ archState \in {"open", "finalizing"}
    /\ HeadEntry = HeapEntry
    /\ heapConsumed < Len(heapBuf)
    /\ heapConsumed' = heapConsumed + 1
    /\ archiveOut' = Append(archiveOut, heapBuf[heapConsumed + 1])
    /\ archiveBuffer' = DataHandler(archiveBuffer, heapBuf[heapConsumed + 1])
    /\ UNCHANGED <<confVars, uploads, sessVars, lastHook, invocations, promise,
                   signVars, captureVars, queue, processed, filesSeen, finalizeCalls,
                   archState, putVars>>

\* the heap stream has ended and was read to its end: 'entry'
ArchiveProcessHeap ==
    /\ UNCHANGED <<signParsed>>
    /\ UNCHANGED <<listening>>
    /\ UNCHANGED <<oldOpen, oldEnded>>
    /\ UNCHANGED <<staleWrite>>
    /\ UNCHANGED <<staleEnd>>
    /\ UNCHANGED <<archiveOut>>
    /\ UNCHANGED <<resolveCalls>>
    /\ UNCHANGED <<snapChunks>>
    /\ UNCHANGED <<postLog, chainErr>>
    /\ archState \in {"open", "finalizing"}
    /\ HeadEntry = HeapEntry
    /\ heapEnded
    /\ heapConsumed = Len(heapBuf)
    /\ processed' = processed + 1
    /\ EntryHandler
    /\ UNCHANGED <<confVars, uploads, sessVars, lastHook, invocations, promise,
                   signVars, captureVars, heapConsumed, queue, archiveBuffer, putBody>>

\* archive.on('finish'), up to its await: the PUT is issued with the
\* concatenated buffer. The archive finishes once finalize was called and its
\* queue has drained.
ArchiveFinish ==
    /\ UNCHANGED <<signParsed>>
    /\ UNCHANGED <<listening>>
    /\ UNCHANGED <<oldOpen, oldEnded>>
    /\ UNCHANGED <<staleWrite>>
    /\ UNCHANGED <<staleEnd>>
    /\ UNCHANGED <<snapChunks>>
    /\ UNCHANGED <<postLog, chainErr>>
    /\ archState = "finalizing"
    /\ processed = Len(queue)
    /\ archState' = "finished"
    /\ archiveOut' = Append(archiveOut, Eocd)
    /\ archiveBuffer' = DataHandler(archiveBuffer, Eocd)
    /\ putBody' = archiveBuffer'
    /\ putState' = "pending"
    /\ puts' = puts + 1
    /\ promise' = IF ResolvesBeforePut THEN "resolved" ELSE promise
    /\ resolveCalls' = IF ResolvesBeforePut THEN resolveCalls + 1 ELSE resolveCalls
    /\ UNCHANGED <<confVars, uploads, sessVars, lastHook, invocations,
                   signVars, captureVars, heapConsumed, queue, processed, filesSeen,
                   finalizeCalls>>

\* the PUT settles: resolve() after the await, or the handler's rejection
PutResponse ==
    /\ UNCHANGED <<signParsed>>
    /\ UNCHANGED <<listening>>
    /\ UNCHANGED <<oldOpen, oldEnded>>
    /\ UNCHANGED <<staleWrite>>
    /\ UNCHANGED <<staleEnd>>
    /\ UNCHANGED <<archiveOut>>
    /\ UNCHANGED <<snapChunks>>
    /\ UNCHANGED <<postLog, chainErr>>
    /\ putState = "pending"
    /\ \E ok \in BOOLEAN :
        /\ uploads' = UploadsAfterPut(uploads, ok)
        /\ IF ok
           THEN /\ putState' = "ok"
                /\ promise' = "resolved"
                /\ resolveCalls' = resolveCalls + 1
           ELSE /\ putState' = "failed"
                /\ UNCHANGED <<promise, resolveCalls>>
    /\ UNCHANGED <<confVars, sessVars, lastHook, invocations, signVars,
                   captureVars, archVars, puts, putBody>>

\* ---- post:report ----

\* this.inspector.disconnect(), outside any try block
PostReport ==
    /\ UNCHANGED <<signParsed>>
    /\ UNCHANGED <<listening>>
    /\ UNCHANGED <<oldOpen, oldEnded>>
    /\ UNCHANGED <<staleWrite>>
    /\ UNCHANGED <<staleEnd>>
    /\ UNCHANGED <<archiveOut>>
    /\ UNCHANGED <<resolveCalls>>
    /\ UNCHANGED <<snapChunks>>
    /\ UNCHANGED <<postLog, chainErr>>
    /\ \E dErr \in BOOLEAN :
        /\ connected' = IF dErr THEN connected ELSE FALSE
        /\ lastHook' = [name |-> "postReport", threw |-> dErr]
    /\ UNCHANGED <<confVars, uploads, posted, cpuChain, heapEnable, invocations,
                   promise, signVars, captureVars, archVars, putVars>>

Next ==
    \/ PreInvoke
    \/ HeapEnableCb
    \/ ProfilerEnableCb
    \/ SetSamplingIntervalCb
    \/ ProfilerStartCb
    \/ PostInvoke
    \/ SignResponse
    \/ ProfilerStopCb
    \/ TakeHeapSnapshotCb
    \/ HeapChunk
    \/ HeapProgress
    \/ ArchiveProcessCpu
    \/ ArchiveConsumeHeap
    \/ ArchiveProcessHeap
    \/ ArchiveFinish
    \/ PutResponse
    \/ PostReport

Spec == Init /\ [][Next]_vars

\* Every pending callback, notification, archive step and HTTP response is
\* eventually delivered; the host is free to stop calling hooks.
FairSpec ==
    /\ Spec
    /\ WF_vars(HeapEnableCb)
    /\ WF_vars(ProfilerEnableCb)
    /\ WF_vars(SetSamplingIntervalCb)
    /\ WF_vars(ProfilerStartCb)
    /\ WF_vars(SignResponse)
    /\ WF_vars(ProfilerStopCb)
    /\ WF_vars(TakeHeapSnapshotCb)
    /\ WF_vars(HeapProgress)
    /\ WF_vars(ArchiveProcessCpu)
    /\ WF_vars(ArchiveConsumeHeap)
    /\ WF_vars(ArchiveProcessHeap)
    /\ WF_vars(ArchiveFinish)
    /\ WF_vars(PutResponse)

\* ---- properties ----

\* the number of capture types switched on, from the two flags themselves
EnabledFlags ==
    (IF profilerEnabled THEN 1 ELSE 0) + (IF heapsnapshotEnabled THEN 1 ELSE 0)
BothEnabled == profilerEnabled /\ heapsnapshotEnabled
Disabled == ~profilerEnabled /\ ~heapsnapshotEnabled

\* C1: once the PUT issued by the 'finish' handler has failed, the promise
\* returned by postInvoke is eventually resolved.
C1_UploadFailureResolves ==
    [](putState = "failed" => <>(promise = "resolved"))

\* C2: when the signing request fails (request rejected, body not JSON), the
\* promise of postInvoke is resolved and no PUT is issued in that invocation.
C2_SigningFailureResolvesNoPut ==
    (signState \in {"done", "failed"} /\ signResp.kind \in SignFailures)
        => /\ promise = "resolved"
           /\ puts = 0
           /\ putState = "none"
           /\ archState = "none"
C2_Witness ==
    /\ signState = "failed"
    /\ signResp.kind = "badjson"
    /\ connected
    /\ promise = "resolved"

\* C3: with both captures enabled, a failed Profiler.stop still lets the heap
\* snapshot reach the archive, a failed takeHeapSnapshot still lets the CPU
\* profile reach the archive, and in both cases postInvoke eventually resolves.
C3_CaptureFailureIsolated ==
    /\ []((BothEnabled /\ cpuStop = "err" /\ heapReq = "ok" /\ snap = "finished")
            => <>(HeapEntry \in Range(queue) /\ promise = "resolved"))
    /\ []((BothEnabled /\ heapReq = "err" /\ cpuStop = "ok")
            => <>(CpuEntry \in Range(queue) /\ promise = "resolved"))

\* C4 as stated: for each of the four flag combinations, a postInvoke that
\* has resolved added as many entries as flags are enabled and called
\* finalize exactly once.
C4_FinalizeOnceEveryCombination ==
    promise = "resolved" => (Len(queue) = EnabledFlags /\ finalizeCalls = 1)

\* C4 amended: never more entries than enabled flags, finalize at most once,
\* and, once the archive exists, finalize has been called exactly when the
\* archive reported as many entries as flags are enabled; with both flags
\* off no archive is built and finalize is never called.
C4_FinalizeOnceAfterAllEntries ==
    /\ Len(queue) <= EnabledFlags
    /\ filesSeen <= Len(queue)
    /\ finalizeCalls <= 1
    /\ archState # "none" => (finalizeCalls = 1 <=> filesSeen = EnabledFlags)
    /\ archState = "none" => finalizeCalls = 0
    /\ Disabled => archState = "none"
C4_Witness ==
    /\ BothEnabled
    /\ finalizeCalls = 1
    /\ filesSeen = 2
    /\ Len(queue) = 2

\* C5: a PUT is issued only after finalize, a finalized archive has nothing
\* left to process before it finishes, a finished archive has issued exactly
\* one PUT, and no invocation issues more than one.
C5_PutOnlyAfterFinalize ==
    /\ puts <= finalizeCalls
    /\ finalizeCalls <= 1
    /\ archState = "finalizing" => (finalizeCalls = 1 /\ processed = Len(queue))
    /\ archState = "finished" <=> puts = 1
    /\ putState # "none" <=> puts = 1
C5_Witness ==
    /\ puts = 1
    /\ finalizeCalls = 1
    /\ putState = "ok"
    /\ promise = "resolved"

\* C6: with both flags false preInvoke changes nothing of the session,
\* postInvoke resolves at once, and no signing POST, no PUT and no inspector
\* command is ever issued.
C6_DisabledDoesNothing ==
    Disabled
        => /\ ~connected
           /\ posted = {}
           /\ cpuChain = "none"
           /\ heapEnable = "none"
           /\ signPosts = 0
           /\ signState = "none"
           /\ puts = 0
           /\ putState = "none"
           /\ archState = "none"
           /\ promise = (IF invocations = 0 THEN "none" ELSE "resolved")
           /\ ~(lastHook.name = "preInvoke" /\ lastHook.threw)
C6_Witness ==
    /\ Disabled
    /\ invocations = MaxInvocations
    /\ promise = "resolved"
    /\ lastHook.name = "preInvoke"

\* C7: uploads only grows, by exactly the credential of each successful
\* signing response, so it holds one entry per successful signing response:
\* k entries after k invocations whose signing succeeded.
C7_UploadsGrowOnly ==
    /\ [](Len(uploads) = signedOk)
    /\ []((signState # "pending" /\ signedOk = invocations)
            => Len(uploads) = invocations)
    /\ [][\/ uploads' = uploads
          \/ /\ signResp'.kind = "ok"
             /\ uploads' = Append(uploads, signResp'.jwtAccess)]_vars
C7_Witness ==
    /\ invocations = 2
    /\ Len(uploads) = 2
    /\ uploads[1] # uploads[2]
    /\ lastHook.name = "postReport"
    /\ promise = "resolved"

\* C8: no PUT is issued before the heap stream was closed by the finished
\* progress report and read to its end (heap snapshot enabled) and before the
\* CPU profile was appended (CPU profiling enabled).
C8_PutAfterPayloadsConsumed ==
    puts > 0
        => /\ processed = Len(queue)
           /\ heapsnapshotEnabled
                => /\ HeapEntry \in Range(queue)
                   /\ heapEnded
                   /\ snap = "finished"
                   /\ heapConsumed = Len(heapBuf)
           /\ profilerEnabled
                => /\ CpuEntry \in Range(queue)
                   /\ cpuStop = "ok"
C8_Witness ==
    /\ BothEnabled
    /\ puts = 1
    /\ Len(heapBuf) = MaxChunks

\* C9 as stated: the heap stream is an entry of the archive as soon as
\* takeHeapSnapshot has been posted, before any chunk or finished report.
C9_HeapAppendedAtPost ==
    /\ heapReq # "none" => HeapEntry \in Range(queue)
    /\ (Len(heapBuf) > 0 \/ heapEnded) => HeapEntry \in Range(queue)

\* C9 amended: the heap stream is an entry of the archive exactly when the
\* callback of takeHeapSnapshot has run (with or without an error); chunks
\* and the finished report delivered earlier wait in the stream.
C9_HeapAppendedByCallback ==
    HeapEntry \in Range(queue) <=> heapReq \in {"ok", "err"}
C9_Witness ==
    /\ HeapEntry \in Range(queue)
    /\ heapReq = "ok"
    /\ Len(heapBuf) = MaxChunks
    /\ heapEnded
    /\ heapConsumed = 0

\* C10: postReport never throws out of the hook, whatever disconnect does.
C10_PostReportNeverThrows ==
    lastHook.name = "postReport" => ~lastHook.threw

\* C11: on an enabled plugin preInvoke disconnects, then connects, and never
\* throws out of the hook: after it the session holds its one connection
\* unless connect itself failed, and a failed connect is only logged.
C11_PreInvokeNeverThrows ==
    (lastHook.name = "preInvoke" /\ ~Disabled)
        => /\ ~lastHook.threw
           /\ connected

\* the CPU commands among those posted by the last preInvoke and its callbacks
CpuCommands == <<"Profiler.enable", "Profiler.setSamplingInterval", "Profiler.start">>
IsCpuCommand(c) == c \in Range(CpuCommands)
CpuLog == SelectSeq(postLog, IsCpuCommand)

\* C12: the CPU commands are posted in the order enable, setSamplingInterval,
\* start, each callback posts the next one whether or not it got an error
\* (only a session that is no longer connected stops the chain), and
\* HeapProfiler.enable is posted whatever the CPU steps do.
C12_CpuChainOrder ==
    /\ CpuLog = SubSeq(CpuCommands, 1, Len(CpuLog))
    /\ cpuChain = "enable" => Len(CpuLog) = 1
    /\ cpuChain = "interval" => Len(CpuLog) = 2
    /\ cpuChain \in {"start", "done"} => Len(CpuLog) = 3
    /\ cpuChain = "broken" => ~connected
    /\ (heapsnapshotEnabled /\ postLog # <<>>)
         => /\ postLog[1] = "HeapProfiler.enable"
            /\ heapEnable \in {"pending", "done"}
C12_Witness ==
    /\ BothEnabled
    /\ cpuChain = "done"
    /\ chainErr
    /\ Len(CpuLog) = 3
    /\ heapEnable = "done"

\* C13: the archive holds no entry name but "profile.cpuprofile" and
\* "profile.heapsnapshot", each at most once and only if its capture is
\* enabled, and a finished archive holds the entry of every enabled capture.
C13_EntryNames ==
    /\ Range(queue) \subseteq {"profile.cpuprofile", "profile.heapsnapshot"}
    /\ Cardinality(Range(queue)) = Len(queue)
    /\ "profile.cpuprofile" \in Range(queue) => profilerEnabled
    /\ "profile.heapsnapshot" \in Range(queue) => heapsnapshotEnabled
    /\ archState = "finished"
         => /\ profilerEnabled => "profile.cpuprofile" \in Range(queue)
            /\ heapsnapshotEnabled => "profile.heapsnapshot" \in Range(queue)
C13_Witness ==
    /\ archState = "finished"
    /\ profilerEnabled
    /\ ~heapsnapshotEnabled
    /\ queue = <<"profile.cpuprofile">>
    /\ invocations = 2

\* what the archive has read of the heap stream, and whether it read it all
HeapPayload == SubSeq(heapBuf, 1, heapConsumed)
HeapEntryProcessed ==
    \E i \in 1..processed : queue[i] = "profile.heapsnapshot"

\* C14: the stream holds exactly the non-empty chunks the backend sent, in
\* arrival order; it is closed exactly when progress has reported finished;
\* the payload of the processed heap entry is the concatenation of all of them.
C14_HeapPayloadIsChunks ==
    /\ heapBuf = snapChunks
    /\ HeapPayload = SubSeq(snapChunks, 1, heapConsumed)
    /\ heapEnded <=> snap = "finished"
    /\ HeapEntryProcessed => (HeapPayload = snapChunks /\ snap = "finished")
C14_Witness ==
    /\ HeapEntryProcessed
    /\ Len(snapChunks) = 2
    /\ snapChunks[1] # snapChunks[2]
    /\ HeapPayload = snapChunks

\* C15 as stated: once signing has succeeded the promise is resolved only
\* after the PUT has completed, and resolve is called at most once.
C15_ResolvedOnlyAfterPut ==
    /\ resolveCalls <= 1
    /\ (signState = "done" /\ promise = "resolved") => putState = "ok"

\* C15 amended: once signing has succeeded the promise is resolved either
\* after signing response, archive finish, PUT issued and PUT completed, in
\* that order, or by the catch block when posting to the inspector throws
\* right after the signing response, with no entry registered and no PUT
\* issued; resolve is called at most once.
C15_ResolvedAfterPutOrCatch ==
    /\ resolveCalls <= 1
    /\ signState # "none" => (promise = "resolved" <=> resolveCalls = 1)
    /\ puts > 0 => (signState = "done" /\ archState = "finished")
    /\ putState \in {"ok", "failed"} => puts = 1
    /\ (signState = "done" /\ promise = "resolved")
         => \/ putState = "ok"
            \/ /\ putState = "none"
               /\ puts = 0
               /\ queue = <<>>
               /\ cpuStop = "none"
               /\ heapReq = "none"
C15_Witness ==
    /\ BothEnabled
    /\ signState = "done"
    /\ putState = "ok"
    /\ promise = "resolved"
    /\ resolveCalls = 1

\* C16: the body of the PUT is the chunks the archive emitted, all of them and
\* in emission order; the body is built once, and no chunk is accumulated
\* after it was built.
C16_PutBodyIsArchiveOutput ==
    /\ archiveBuffer = archiveOut
    /\ puts <= 1
    /\ archState = "finished" <=> puts = 1
    /\ puts = 1 => (putBody = archiveOut /\ putBody[Len(putBody)] = "eocd")
    /\ puts = 0 => putBody = <<>>
C16_Witness ==
    /\ puts = 1
    /\ putBody = <<"profile.cpuprofile", "a", "b", "eocd">>
    /\ archiveOut = putBody

\* C17: with the heap snapshot enabled and several postInvoke calls, the chunk
\* and progress events of a later invocation never write to, nor end, a
\* stream that an earlier invocation has closed.
C17_EventsReachOwnStreamOnly ==
    ~staleWrite /\ ~staleEnd

\* C18 as stated: uploads holds one credential for every signing request
\* whose response could be parsed, whatever the outcome of the PUT.
C18_UploadsCountParsed ==
    Len(uploads) = signParsed

\* C18 amended: uploads holds one credential for every signing request whose
\* response parsed to a value other than null; the credential is appended
\* when the response is handled, before any entry is registered and before
\* any PUT, and the outcome of the PUT leaves uploads alone.
C18_UploadsCountParsedNonNull ==
    /\ [](/\ Len(uploads) = signedOk
          /\ signedOk <= signParsed
          /\ signParsed <= signPosts)
    /\ [][uploads' # uploads
             => /\ Len(uploads') = Len(uploads) + 1
                /\ signState = "pending"
                /\ queue' = <<>>
                /\ puts' = 0
                /\ putState' = "none"]_vars
    /\ [][putState' # putState => uploads' = uploads]_vars
C18_Witness ==
    /\ invocations = 2
    /\ signParsed = 2
    /\ Len(uploads) = 1
    /\ signResp.kind = "ok"
    /\ putState = "failed"

====
